---- MODULE Spec2Model ----
(***************************************************************************)
(* A model of mavlog2csv: the tabular export (src/src/mavlog2csv.py) and   *)
(* the log synchronizer (src/src/mavlog2csv/sync.py).                      *)
(*                                                                         *)
(* Representation.                                                         *)
(*  - A Python value is a record tagged by k: IntV(n), StrV(s), NoneV.     *)
(*  - A telemetry message is [type, fields]; fields maps the attribute     *)
(*    names that are present to values (getattr(..., None) on the rest).   *)
(*  - A column specification given on the command line is a sequence of    *)
(*    tokens: each maximal run of \w characters is one token, every other  *)
(*    character is a token of its own.  Join gives the Python string.      *)
(*  - A timestamp string of the external log is a sequence of characters;  *)
(*    "D" stands for a well-formed date (YYYY-MM-DD), "h" for the hour     *)
(*    digits and "m" for the minute digits; seconds and milliseconds are   *)
(*    real digits.  A parsed datetime is the number of milliseconds since  *)
(*    D h:m:00.000.                                                        *)
(*  - Vehicle times are integer microseconds (TimeUS); the float seconds   *)
(*    of the code are the exact rationals TimeUS / 10^6.                   *)
(***************************************************************************)
EXTENDS Integers, Sequences, FiniteSets, TLC

VARIABLES
    op,             \* the operation that was called
    flight_log,     \* the events stored in the .bin file read by the sync pipeline
    pc,             \* position of the running operation
    error,          \* "" or the exception that ended the operation
    device,         \* [base, ext]: the input path of the export
    columns,        \* the column specifications (export) / field names (projection)
    skip_n_arms,    \* iter_mavlink_messages' skip_n_arms
    stream,         \* the raw events the decoder has read so far, in order
    n_message,      \* iter_mavlink_messages' n_message
    n_armed,        \* iter_mavlink_messages' n_armed
    message,        \* the message being handled (NoMessage when none)
    conn,           \* decoder handle: "none", "open", "closed"
    output,         \* destination file: [state, header, rows]
    yielded,        \* positions in stream of the events the filter has yielded
    row,            \* the last row built by message_to_row
    arm_messages,   \* get_arm_disarm_times' arm_messages
    arm_csv,        \* the auxiliary <base>_arm.csv: [written, rows]
    window,         \* [returned, arm, disarm]: result of get_arm_disarm_times (microseconds)
    csv,            \* the loaded external log: [loaded, parsed, fieldnames, rows, start, end]
    scale_factor,   \* [num, den] once computed, NoScale before
    row_i           \* number of external rows the rewriting loop has handled

vars == <<op, flight_log, pc, error, device, columns, skip_n_arms, stream, n_message, n_armed,
          message, conn, output, yielded, row, arm_messages, arm_csv, window,
          csv, scale_factor, row_i>>

exportVars == <<device, columns, skip_n_arms, n_message, n_armed, message,
                yielded, row>>
syncVars == <<op, flight_log, arm_messages, arm_csv, window, csv, scale_factor, row_i>>

-----------------------------------------------------------------------------
(* Bounds of the model *)

MaxStream == 3      \* events read from one log
MaxCols == 2        \* column specifications of one export
MaxSkip == 2        \* largest skip_n_arms tried

-----------------------------------------------------------------------------
(* Python values *)

NoneV == [k |-> "none"]
IntV(n) == [k |-> "int", v |-> n]
StrV(s) == [k |-> "str", s |-> s]

NoMessage == [type |-> "<none>", fields |-> <<>>]
NoFields == [x \in {} |-> NoneV]

Range(s) == {s[i] : i \in DOMAIN s}

\* getattr(message, name, None)
GetAttr(m, name) == IF name \in DOMAIN m.fields THEN m.fields[name] ELSE NoneV

\* hasattr(message, name)
HasAttr(m, name) == name \in DOMAIN m.fields

-----------------------------------------------------------------------------
(* mavlog2csv.py: mode mapping *)

PLANE_MODE_MAPPING ==
    [n \in (0..8) \cup (10..24) |->
        CASE n = 0 -> "MANUAL"      [] n = 1 -> "CIRCLE"
          [] n = 2 -> "STABILIZE"   [] n = 3 -> "TRAINING"
          [] n = 4 -> "ACRO"        [] n = 5 -> "FBWA"
          [] n = 6 -> "FBWB"        [] n = 7 -> "CRUISE"
          [] n = 8 -> "AUTOTUNE"    [] n = 10 -> "AUTO"
          [] n = 11 -> "RTL"        [] n = 12 -> "LOITER"
          [] n = 13 -> "TAKEOFF"    [] n = 14 -> "AVOID_ADSB"
          [] n = 15 -> "GUIDED"     [] n = 16 -> "INITIALISING"
          [] n = 17 -> "QSTABILIZE" [] n = 18 -> "QHOVER"
          [] n = 19 -> "QLOITER"    [] n = 20 -> "QLAND"
          [] n = 21 -> "QRTL"       [] n = 22 -> "QAUTOTUNE"
          [] n = 23 -> "QACRO"      [] n = 24 -> "THERMAL"]

\* str(n) for an integer n
DigitChar(d) ==
    CASE d = 0 -> "0" [] d = 1 -> "1" [] d = 2 -> "2" [] d = 3 -> "3"
      [] d = 4 -> "4" [] d = 5 -> "5" [] d = 6 -> "6" [] d = 7 -> "7"
      [] d = 8 -> "8" [] d = 9 -> "9"

RECURSIVE NatStr(_)
NatStr(n) == IF n < 10 THEN DigitChar(n) ELSE NatStr(n \div 10) \o DigitChar(n % 10)

IntStr(n) == IF n < 0 THEN "-" \o NatStr(-n) ELSE NatStr(n)

\* get_mode_string(mode_num), mode_num an integer value
get_mode_string(mode_num) ==
    IF mode_num.v \in DOMAIN PLANE_MODE_MAPPING
    THEN StrV(PLANE_MODE_MAPPING[mode_num.v])
    ELSE StrV(IntStr(mode_num.v))

\* is_message_bad(message), message not None
is_message_bad(m) == m.type = "BAD_DATA"

-----------------------------------------------------------------------------
(* mavlog2csv.py: column specifications *)

Punctuation == {".", ",", "-", " "}
IsWord(tok) == tok \notin Punctuation

RECURSIVE Join(_)
Join(toks) == IF toks = <<>> THEN "" ELSE Head(toks) \o Join(Tail(toks))

\* re.match(r"(\w+)\.(\w+)", cli_col): anchored at the start only
ColumnMatches(cli_col) ==
    /\ Len(cli_col) >= 3
    /\ IsWord(cli_col[1])
    /\ cli_col[2] = "."
    /\ IsWord(cli_col[3])

\* parse_cli_column(cli_col) when the pattern matches: (group 1, group 2)
parse_cli_column(cli_col) == <<cli_col[1], cli_col[3]>>

\* set(map(itemgetter(0), parsed_columns))
message_type_filter(cols) == {parse_cli_column(cols[i])[1] : i \in DOMAIN cols}

\* message_type_columns[t]: the fields requested of type t, in order given
RECURSIVE message_type_columns(_, _)
message_type_columns(cols, t) ==
    IF cols = <<>> THEN <<>>
    ELSE LET p == parse_cli_column(Head(cols))
         IN  (IF p[1] = t THEN <<p[2]>> ELSE <<>>) \o message_type_columns(Tail(cols), t)

\* header = ["TimeUS", "TimeS", "Date", "Time", *columns]
Header(cols) == <<"TimeUS", "TimeS", "Date", "Time">> \o [i \in DOMAIN cols |-> Join(cols[i])]

-----------------------------------------------------------------------------
(* mavlog2csv.py: message_to_row *)

\* round(TimeUS / 1_000_000, 2), kept in hundredths of a second
RoundTimeS(us) == [k |-> "float", hundredths |-> (us + 5000) \div 10000]

\* The four time columns of a row
TimeColumns(m) ==
    (IF HasAttr(m, "TimeUS")
     THEN ("TimeUS" :> m.fields["TimeUS"]) @@ ("TimeS" :> RoundTimeS(m.fields["TimeUS"].v))
     ELSE ("TimeUS" :> IntV(0)) @@ ("TimeS" :> IntV(0)))
    @@
    (IF HasAttr(m, "_timestamp")
     THEN ("Date" :> [k |-> "date", of |-> m.fields["_timestamp"].v])
          @@ ("Time" :> [k |-> "time", of |-> m.fields["_timestamp"].v])
     ELSE ("Date" :> StrV("")) @@ ("Time" :> StrV("")))

ColumnValueFalsy(m, col) ==
    LET raw == GetAttr(m, col)
        mapped == IF m.type = "MODE" /\ col \in {"Mode", "ModeNum"} /\ raw # NoneV
                  THEN get_mode_string(raw)
                  ELSE raw
    IN  IF mapped \in {NoneV, IntV(0), StrV("")} THEN StrV("") ELSE mapped

\* The value stored for one requested column
ColumnValue(m, col) ==
    LET raw == GetAttr(m, col)
        mapped == IF m.type = "MODE" /\ col \in {"Mode", "ModeNum"} /\ raw # NoneV
                  THEN get_mode_string(raw)
                  ELSE raw
    IN  IF mapped = NoneV THEN StrV("") ELSE mapped

RECURSIVE ColumnEntries(_, _)
ColumnEntries(m, cols) ==
    IF cols = <<>> THEN NoFields
    ELSE LET n == Len(cols)
         IN  ((m.type \o "." \o cols[n]) :> ColumnValue(m, cols[n]))
             @@ ColumnEntries(m, SubSeq(cols, 1, n - 1))

message_to_row(m, cols) == ColumnEntries(m, cols) @@ TimeColumns(m)

-----------------------------------------------------------------------------
(* The decoder (pymavlink), seen through recv_match *)

Event(t, f) == [type |-> t, fields |-> f]

\* recv_match(type=types) hands over the next event whose type is in types;
\* corrupt data is handed over as a BAD_DATA message, which the callers test.
Delivered(m, types) == m.type \in types \cup {"BAD_DATA"}

EV_ARM == Event("EV", ("TimeUS" :> IntV(1000000)) @@ ("Id" :> IntV(10)))
EV_DISARM == Event("EV", ("TimeUS" :> IntV(2000000)) @@ ("Id" :> IntV(11)))
GPS_MSG == Event("GPS", ("TimeUS" :> IntV(1500000)) @@ ("_timestamp" :> IntV(1700000000))
                        @@ ("Lat" :> IntV(0)))
MODE_MSG == Event("MODE", ("TimeUS" :> IntV(1234567)) @@ ("Mode" :> IntV(10))
                          @@ ("ModeNum" :> IntV(10)))
BAD_MSG == Event("BAD_DATA", NoFields)

ExportEvents == {EV_ARM, EV_DISARM, GPS_MSG, MODE_MSG, BAD_MSG}

\* Column specifications tried: three well-formed ones, one that the pattern
\* accepts although text follows the field name, one that it rejects.
ColumnSpecs == { <<"GPS", ".", "Lat">>,
                 <<"MODE", ".", "Mode">>,
                 <<"EV", ".", "Id">>,
                 <<"GPS", ".", "Lat", ",", "GPS", ".", "Lng">>,
                 <<"GPSLat">> }

ColumnLists == UNION {[1..n -> ColumnSpecs] : n \in 1..MaxCols}

Devices == { [base |-> "flight", ext |-> ".bin"],
             [base |-> "flight", ext |-> ".BIN"],
             [base |-> "flight", ext |-> ".tlog"] }

\* str.lower() on the extensions used
Lower(ext) == IF ext = ".BIN" THEN ".bin" ELSE ext

ClosedFile == [state |-> "unopened", header |-> <<>>, rows |-> <<>>]
NoScale == [num |-> 0, den |-> 0]
NoWindow == [returned |-> FALSE, arm |-> 0, disarm |-> 0]
NoCsv == [loaded |-> FALSE, parsed |-> FALSE, fieldnames |-> <<>>, rows |-> <<>>,
          start |-> 0, end |-> 0]
NoArmCsv == [written |-> FALSE, rows |-> <<>>]

SyncIdle ==
    /\ flight_log = <<>>
    /\ arm_messages = <<>>
    /\ arm_csv = NoArmCsv
    /\ window = NoWindow
    /\ csv = NoCsv
    /\ scale_factor = NoScale
    /\ row_i = 0

-----------------------------------------------------------------------------
(* mavlog2csv.py: iter_mavlink_messages and mavlog2csv *)

\* types = types.copy(); types.add("EV")
FilterTypes(cols) == message_type_filter(cols) \cup {"EV"}

\* message.get_type() == "EV" and getattr(message, "Id", None) == 10
IsArmEvent(m) == m.type = "EV" /\ GetAttr(m, "Id") = IntV(10)

WithheldNoGate(m, armed, skip) == m.type = "EV"

\* n_armed < skip_n_arms or message.get_type() == "EV"
Withheld(m, armed, skip) == armed < skip \/ m.type = "EV"

\* csv.DictWriter.writerow with extrasaction="raise": keys outside fieldnames
RowFitsHeader(r, header) == DOMAIN r \subseteq Range(header)

\* the dict DictWriter writes: one cell per header name, "" where the row has none
WrittenRow(r, header) ==
    [i \in DOMAIN header |-> IF header[i] \in DOMAIN r THEN r[header[i]] ELSE StrV("")]

ExportInit ==
    /\ op = "mavlog2csv"
    /\ pc = "start"
    /\ error = ""
    /\ device \in Devices
    /\ columns \in ColumnLists
    /\ skip_n_arms \in 0..MaxSkip
    /\ stream = <<>>
    /\ n_message = 0
    /\ n_armed = 0
    /\ message = NoMessage
    /\ conn = "none"
    /\ output = ClosedFile
    /\ yielded = <<>>
    /\ row = NoFields
    /\ SyncIdle

\* mavlog2csv: parsed_columns = list(map(parse_cli_column, columns))
ParseColumns ==
    /\ pc = "start"
    /\ IF \A i \in DOMAIN columns : ColumnMatches(columns[i])
       THEN pc' = "open_output" /\ error' = error
       ELSE pc' = "failed" /\ error' = "ValueError: column format"
    /\ UNCHANGED <<exportVars, stream, conn, output, syncVars>>

\* mavlog2csv: with open_output(output) ...: csv_writer.writeheader()
OpenOutput ==
    /\ pc = "open_output"
    /\ \E writable \in BOOLEAN :
         IF writable
         THEN /\ output' = [state |-> "open", header |-> Header(columns), rows |-> <<>>]
              /\ pc' = "connect"
              /\ error' = error
         ELSE /\ output' = output
              /\ pc' = "failed"
              /\ error' = "OSError: open"
    /\ UNCHANGED <<exportVars, stream, conn, syncVars>>

\* first pull of the generator: with mavlink_connect(device) as mav_conn
Connect ==
    /\ pc = "connect"
    /\ IF Lower(device.ext) = ".bin"
       THEN /\ conn' = "open"
            /\ pc' = "recv"
            /\ UNCHANGED <<error, output>>
       ELSE /\ conn' = conn
            /\ pc' = "failed"
            /\ error' = "ValueError: not a .bin file"
            /\ output' = [output EXCEPT !.state = "closed"]
    /\ UNCHANGED <<exportVars, stream, syncVars>>

\* inside recv_match: the decoder reads an event of a type not asked for
DecoderSkip ==
    /\ pc = "recv"
    /\ Len(stream) < MaxStream
    /\ \E m \in ExportEvents :
         /\ ~Delivered(m, FilterTypes(columns))
         /\ stream' = Append(stream, m)
    /\ UNCHANGED <<pc, error, exportVars, conn, output, syncVars>>

\* one turn of the while loop on a message handed over by recv_match
IterMessage ==
    /\ pc = "recv"
    /\ Len(stream) < MaxStream
    /\ \E m \in ExportEvents :
         /\ Delivered(m, FilterTypes(columns))
         /\ stream' = Append(stream, m)
         /\ n_message' = n_message + 1
         /\ IF is_message_bad(m)
            THEN UNCHANGED <<n_armed, message, yielded, pc>>
            ELSE LET armed == IF IsArmEvent(m) THEN n_armed + 1 ELSE n_armed
                 IN  /\ n_armed' = armed
                     /\ IF Withheld(m, armed, skip_n_arms)
                        THEN UNCHANGED <<message, yielded, pc>>
                        ELSE /\ message' = m
                             /\ yielded' = Append(yielded, Len(stream) + 1)
                             /\ pc' = "write_row"
    /\ UNCHANGED <<error, device, columns, skip_n_arms, row, conn, output, syncVars>>

\* recv_match returns None: break, the with block ends, conn.close() runs,
\* the generator is exhausted and mavlog2csv leaves its own with block
IterEnd ==
    /\ pc = "recv"
    /\ n_message' = n_message + 1
    /\ conn' = "closed"
    /\ output' = [output EXCEPT !.state = "closed"]
    /\ pc' = "done"
    /\ UNCHANGED <<error, device, columns, skip_n_arms, stream, n_armed, message,
                   yielded, row, syncVars>>

\* body of mavlog2csv's for loop.  When writerow raises, the exception leaves
\* mavlog2csv: the output file is closed by its with block; the suspended
\* generator is finalized with GeneratorExit, which mavlink_connect does not
\* catch, so the statement after its yield (conn.close()) is not run.
WriteRow ==
    /\ pc = "write_row"
    /\ LET t == message.type
           r == message_to_row(message, message_type_columns(columns, t))
       IN  IF t \in message_type_filter(columns)
           THEN /\ row' = r
                /\ IF RowFitsHeader(r, output.header)
                   THEN /\ output' = [output EXCEPT
                                        !.rows = Append(@, WrittenRow(r, output.header))]
                        /\ pc' = "recv"
                        /\ error' = error
                   ELSE /\ output' = [output EXCEPT !.state = "closed"]
                        /\ pc' = "failed"
                        /\ error' = "ValueError: dict contains fields not in fieldnames"
           ELSE /\ pc' = "recv"
                /\ UNCHANGED <<row, output, error>>
    /\ UNCHANGED <<device, columns, skip_n_arms, stream, n_message, n_armed, message,
                   conn, yielded, syncVars>>

ExportNext ==
    \/ ParseColumns
    \/ OpenOutput
    \/ Connect
    \/ DecoderSkip
    \/ IterMessage
    \/ IterEnd
    \/ WriteRow

SpecExport == ExportInit /\ [][ExportNext]_vars

-----------------------------------------------------------------------------
(* Properties of the event filter and the export *)

\* arm-transition events (type EV, Id 10) among the first i - 1 events read
ArmTransitionsBefore(i) ==
    Cardinality({j \in 1..(i - 1) :
                    /\ stream[j].type = "EV"
                    /\ "Id" \in DOMAIN stream[j].fields
                    /\ stream[j].fields["Id"] = IntV(10)})

\* C1: every event the filter yields has at least skip_n_arms arm-transition
\* events before it in the stream; while the stream holds fewer than
\* skip_n_arms arm transitions nothing is yielded and the run does not fail
\* once connected, so that it ends normally at end-of-stream.
C1_YieldOnlyAfterNArms ==
    /\ \A k \in DOMAIN yielded : ArmTransitionsBefore(yielded[k]) >= skip_n_arms
    /\ ArmTransitionsBefore(Len(stream) + 1) < skip_n_arms
          => /\ yielded = <<>>
             /\ conn # "none" => pc \in {"recv", "done"}
             /\ pc = "done" => error = "" /\ output.rows = <<>>

\* C1 witness: an export with skip_n_arms = MaxSkip that has yielded an event
C1_Witness ==
    /\ skip_n_arms >= 2
    /\ yielded # <<>>
    /\ pc = "done"

\* C6 (as claimed): once skip_n_arms arm transitions have been read, every
\* later well-formed event of a requested type that is not an arm transition
\* is yielded, in stream order and exactly once.
C6_YieldsEveryRequestedEvent ==
    /\ \A i \in DOMAIN stream :
          ( /\ ArmTransitionsBefore(i) >= skip_n_arms
            /\ stream[i].type # "BAD_DATA"
            /\ stream[i].type \in message_type_filter(columns)
            /\ ~(stream[i].type = "EV" /\ GetAttr(stream[i], "Id") = IntV(10)) )
          => \E k \in DOMAIN yielded : yielded[k] = i
    /\ \A k \in DOMAIN yielded : k > 1 => yielded[k - 1] < yielded[k]

\* C9 (as claimed): the header is the four time columns then the column
\* specifications in the order given; one data row is written per yielded
\* event; every column name of a row built for writing is a header name.
C9_RowsCarryHeaderColumns ==
    /\ output.state # "unopened"
          => output.header = <<"TimeUS", "TimeS", "Date", "Time">>
                             \o [i \in DOMAIN columns |-> Join(columns[i])]
    /\ pc \in {"recv", "done"} => Len(output.rows) = Len(yielded)
    /\ \A name \in DOMAIN row : \E i \in DOMAIN output.header : output.header[i] = name

\* C4 (as claimed): when an operation has returned or failed, a decoder
\* handle it opened is closed.
C4_HandleClosedOnExit == pc \in {"done", "failed"} => conn # "open"

-----------------------------------------------------------------------------
(* message_to_row on its own *)

MaxRowCols == 2     \* field names requested of one message

NoAttr == [k |-> "absent"]

ModeCodes == {NoAttr, NoneV, IntV(0), IntV(9), IntV(10), IntV(25)}
RawValues == {NoAttr, NoneV, IntV(0), IntV(7), StrV(""), StrV("x")}
TimeAttrs == { NoFields,
               ("TimeUS" :> IntV(123456)) @@ ("_timestamp" :> IntV(1000000)) }

\* an object with the attributes whose value is not NoAttr
WithAttrs(mode, num, value, times) ==
    [n \in {x \in {"Mode"} : mode # NoAttr} |-> mode]
    @@ [n \in {x \in {"ModeNum"} : num # NoAttr} |-> num]
    @@ [n \in {x \in {"Value"} : value # NoAttr} |-> value]
    @@ times

RowMessages ==
    {Event("MODE", WithAttrs(a, b, c, t)) :
        a \in ModeCodes, b \in {NoAttr, IntV(11)}, c \in RawValues, t \in TimeAttrs}
    \cup
    {Event("TEST", WithAttrs(a, b, c, t)) :
        a \in RawValues, b \in {NoAttr, IntV(0)}, c \in RawValues, t \in TimeAttrs}

FieldLists == UNION {[1..n -> {"Mode", "ModeNum", "Value"}] : n \in 0..MaxRowCols}

RowInit ==
    /\ op = "message_to_row"
    /\ pc = "start"
    /\ error = ""
    /\ device = [base |-> "", ext |-> ""]
    /\ columns \in FieldLists
    /\ message \in RowMessages
    /\ skip_n_arms = 0
    /\ stream = <<>>
    /\ n_message = 0
    /\ n_armed = 0
    /\ conn = "none"
    /\ output = ClosedFile
    /\ yielded = <<>>
    /\ row = NoFields
    /\ SyncIdle

\* row = message_to_row(message, columns)
Project ==
    /\ pc = "start"
    /\ row' = message_to_row(message, columns)
    /\ pc' = "done"
    /\ UNCHANGED <<error, device, columns, skip_n_arms, stream, n_message, n_armed,
                   message, conn, output, yielded, syncVars>>

RowNext == Project

SpecRow == RowInit /\ [][RowNext]_vars

\* C10: the row has one entry "<type>.<field>" per requested field (next to
\* the four time columns); its value is "" for an absent (or None) field, the
\* mode name or the decimal string of the code for MODE.Mode / MODE.ModeNum,
\* and the raw value otherwise, zero and "" included.
C10_RowValues ==
    pc = "done" =>
      /\ DOMAIN row = {"TimeUS", "TimeS", "Date", "Time"}
                      \cup {message.type \o "." \o columns[i] : i \in DOMAIN columns}
      /\ \A i \in DOMAIN columns :
           LET f == columns[i]
               cell == row[message.type \o "." \o f]
               present == f \in DOMAIN message.fields /\ message.fields[f] # NoneV
           IN  /\ ~present => cell = StrV("")
               /\ present /\ message.type = "MODE" /\ f \in {"Mode", "ModeNum"}
                    => /\ message.fields[f] = IntV(0) => cell = StrV("MANUAL")
                       /\ message.fields[f] = IntV(10) => cell = StrV("AUTO")
                       /\ message.fields[f] = IntV(11) => cell = StrV("RTL")
                       /\ message.fields[f] = IntV(9) => cell = StrV("9")
                       /\ message.fields[f] = IntV(25) => cell = StrV("25")
               /\ present /\ ~(message.type = "MODE" /\ f \in {"Mode", "ModeNum"})
                    => cell = message.fields[f]

\* C10 witness: a row that keeps a present zero, renders an absent field as ""
\* and maps a mode code that the table lacks to its decimal string
C10_Witness ==
    /\ pc = "done"
    /\ message.type = "MODE"
    /\ columns = <<"Mode", "Value">>
    /\ row["MODE.Mode"] = StrV("9")
    /\ row["MODE.Value"] = IntV(0)

-----------------------------------------------------------------------------
(* sync.py: get_arm_disarm_times *)

MaxArmStream == 3   \* events stored in a flight log

ARM(t, state) == Event("ARM", ("TimeUS" :> IntV(t)) @@ ("ArmState" :> state))
ARM_NOSTATE == Event("ARM", ("TimeUS" :> IntV(3)))

ArmTimesUS == {3, 8}
ArmEvents == {ARM(t, IntV(st)) : t \in ArmTimesUS, st \in {0, 1}}
             \cup {ARM_NOSTATE, BAD_MSG, GPS_MSG}

FlightLogs == UNION {[1..n -> ArmEvents] : n \in 0..MaxArmStream}

BinFiles == { [base |-> "flight", ext |-> ".bin"], [base |-> "missing", ext |-> ".bin"] }

\* os.path.exists(bin_file)
FileExists(f) == f.base # "missing"

\* arm_messages.append({"TimeUS": ..., "TimeS": TimeUS / 1e6, "ArmState": ...})
ArmRecord(m) ==
    [TimeUS |-> m.fields["TimeUS"].v, TimeS |-> m.fields["TimeUS"], ArmState |-> GetAttr(m, "ArmState")]

ScanArmLastWins(msgs, first, last) ==
    IF msgs = <<>> THEN [first |-> first, last |-> last]
    ELSE LET armed == {i \in DOMAIN msgs : msgs[i].ArmState = IntV(1)}
             disarmed == {i \in DOMAIN msgs : msgs[i].ArmState = IntV(0)}
             hi(S) == CHOOSE i \in S : \A j \in S : j <= i
         IN  [first |-> IF armed = {} THEN first ELSE msgs[hi(armed)].TimeS,
              last |-> IF disarmed = {} THEN last ELSE msgs[hi(disarmed)].TimeS]

\* the for loop over arm_messages; first and last start as None
RECURSIVE ScanArm(_, _, _)
ScanArm(msgs, first, last) ==
    IF msgs = <<>> THEN [first |-> first, last |-> last]
    ELSE LET state == Head(msgs).ArmState
             t_sec == Head(msgs).TimeS
             first2 == IF first = NoneV /\ state = IntV(1) THEN t_sec ELSE first
             last2 == IF state = IntV(0) THEN t_sec ELSE last
         IN  ScanArm(Tail(msgs), first2, last2)

ArmErrorDisarmFirst(first, last) ==
    IF last = NoneV THEN "ValueError: no DISARM event"
    ELSE IF first = NoneV THEN "ValueError: no ARM event"
    ELSE ""

\* the two checks after the loop; a disarm earlier than the arm is let through
ArmError(first, last) ==
    IF first = NoneV THEN "ValueError: no ARM event"
    ELSE IF last = NoneV THEN "ValueError: no DISARM event"
    ELSE ""

ArmInit ==
    /\ op = "get_arm_disarm_times"
    /\ flight_log \in FlightLogs
    /\ device \in BinFiles
    /\ pc = "arm_start"
    /\ error = ""
    /\ columns = <<>>
    /\ skip_n_arms = 0
    /\ stream = <<>>
    /\ n_message = 0
    /\ n_armed = 0
    /\ message = NoMessage
    /\ conn = "none"
    /\ output = ClosedFile
    /\ yielded = <<>>
    /\ row = NoFields
    /\ arm_messages = <<>>
    /\ arm_csv = NoArmCsv
    /\ window = NoWindow
    /\ csv = NoCsv
    /\ scale_factor = NoScale
    /\ row_i = 0

armRest == <<op, flight_log, device, columns, skip_n_arms, n_message, n_armed, message,
             output, yielded, row, csv, scale_factor, row_i>>

\* the existence check, then mav_conn = mavutil.mavlink_connection(bin_file)
ArmOpen ==
    /\ pc = "arm_start"
    /\ IF FileExists(device)
       THEN conn' = "open" /\ pc' = "arm_recv" /\ error' = error
       ELSE conn' = conn /\ pc' = "failed" /\ error' = "FileNotFoundError: bin"
    /\ UNCHANGED <<armRest, stream, arm_messages, arm_csv, window>>

\* inside recv_match(type=["ARM"]): an event of another type is passed over
ArmDecoderSkip ==
    /\ pc = "arm_recv"
    /\ Len(stream) < Len(flight_log)
    /\ ~Delivered(flight_log[Len(stream) + 1], {"ARM"})
    /\ stream' = Append(stream, flight_log[Len(stream) + 1])
    /\ UNCHANGED <<armRest, pc, error, conn, arm_messages, arm_csv, window>>

\* one turn of the while loop on a message handed over by recv_match
ArmRecv ==
    /\ pc = "arm_recv"
    /\ Len(stream) < Len(flight_log)
    /\ LET msg == flight_log[Len(stream) + 1]
       IN  /\ Delivered(msg, {"ARM"})
           /\ stream' = Append(stream, msg)
           /\ arm_messages' = IF msg.type = "BAD_DATA" THEN arm_messages
                              ELSE IF msg.type = "ARM"
                                   THEN Append(arm_messages, ArmRecord(msg))
                                   ELSE arm_messages
    /\ UNCHANGED <<armRest, pc, error, conn, arm_csv, window>>

\* recv_match returns None: break, then the export of arm_messages
ArmExport ==
    /\ pc = "arm_recv"
    /\ Len(stream) = Len(flight_log)
    /\ arm_csv' = IF arm_messages # <<>>
                  THEN [written |-> TRUE, rows |-> arm_messages]
                  ELSE arm_csv
    /\ pc' = "arm_derive"
    /\ UNCHANGED <<armRest, stream, error, conn, arm_messages, window>>

\* the scan of arm_messages and the return; the handle is not closed
ArmDerive ==
    /\ pc = "arm_derive"
    /\ LET r == ScanArm(arm_messages, NoneV, NoneV)
           e == ArmError(r.first, r.last)
       IN  IF e # ""
           THEN /\ pc' = "failed"
                /\ error' = e
                /\ window' = window
           ELSE /\ pc' = IF op = "sync_and_write" THEN "load_csv" ELSE "done"
                /\ error' = error
                /\ window' = [returned |-> TRUE, arm |-> r.first.v, disarm |-> r.last.v]
    /\ UNCHANGED <<armRest, stream, conn, arm_messages, arm_csv>>

ArmNext ==
    \/ ArmOpen
    \/ ArmDecoderSkip
    \/ ArmRecv
    \/ ArmExport
    \/ ArmDerive

SpecArm == ArmInit /\ [][ArmNext]_vars

\* arm records of the flight log, by position
ArmedAt == {i \in DOMAIN flight_log :
               /\ flight_log[i].type = "ARM"
               /\ "ArmState" \in DOMAIN flight_log[i].fields
               /\ flight_log[i].fields["ArmState"] = IntV(1)}
DisarmedAt == {i \in DOMAIN flight_log :
                  /\ flight_log[i].type = "ARM"
                  /\ "ArmState" \in DOMAIN flight_log[i].fields
                  /\ flight_log[i].fields["ArmState"] = IntV(0)}

\* C2: when the log holds an armed and a disarmed record, the returned arm time
\* is the time of the first armed record in stream order and the disarm time
\* is the time of the last disarmed record in stream order.
C2_FirstArmLastDisarm ==
    (pc \in {"done", "failed"} /\ FileExists(device) /\ ArmedAt # {} /\ DisarmedAt # {})
    => /\ window.returned
       /\ \E i \in ArmedAt :
             /\ \A j \in ArmedAt : i <= j
             /\ window.arm = flight_log[i].fields["TimeUS"].v
       /\ \E i \in DisarmedAt :
             /\ \A j \in DisarmedAt : j <= i
             /\ window.disarm = flight_log[i].fields["TimeUS"].v

\* C2 witness: a disarmed record, then two armed records at different times,
\* the later-stamped first; extraction has returned
C2_Witness ==
    /\ pc = "done"
    /\ Len(flight_log) = 3
    /\ 1 \in DisarmedAt /\ 2 \in ArmedAt /\ 3 \in ArmedAt
    /\ flight_log[2].fields["TimeUS"] # flight_log[3].fields["TimeUS"]

\* C7: the extraction fails with the missing-arm error exactly when the log
\* has no armed record, with the missing-disarm error exactly when it has an
\* armed but no disarmed record, and otherwise returns, also when the
\* disarm time is earlier than the arm time.
C7_ArmErrors ==
    (pc \in {"done", "failed"} /\ FileExists(device))
    => /\ (error = "ValueError: no ARM event") <=> (ArmedAt = {})
       /\ (error = "ValueError: no DISARM event") <=> (ArmedAt # {} /\ DisarmedAt = {})
       /\ (ArmedAt # {} /\ DisarmedAt # {}) <=> (pc = "done" /\ error = "" /\ window.returned)

\* C7 witness: a returned window whose disarm time is earlier than its arm time
C7_Witness ==
    /\ pc = "done"
    /\ window.returned
    /\ window.disarm < window.arm

-----------------------------------------------------------------------------
(* sync.py: timestamps of the external log *)

Digits == {"0", "1", "2", "3", "4", "5", "6", "7", "8", "9"}
DigitVal(c) ==
    CASE c = "0" -> 0 [] c = "1" -> 1 [] c = "2" -> 2 [] c = "3" -> 3
      [] c = "4" -> 4 [] c = "5" -> 5 [] c = "6" -> 6 [] c = "7" -> 7
      [] c = "8" -> 8 [] c = "9" -> 9

NotADate == [ok |-> FALSE, ms |-> 0]
DateTime(ms) == [ok |-> TRUE, ms |-> ms]

\* milliseconds from D h:m:00.000 to D hh:mm:ss.fff; "h" stands for the hour
\* digits 10 and "m" for the minute digits 00
SinceBase(hh, mm, ss, fff) == ((hh - 10) * 60 + mm) * 60000 + ss * 1000 + fff

\* datetime.fromisoformat(s): YYYY-MM-DD[*HH[:MM[:SS[.fff]]]], * any character
fromisoformat(s) ==
    LET n == Len(s)
        dateOk == n >= 1 /\ s[1] = "D"
        hourOk == n >= 3 /\ s[3] = "h"
        minOk == n >= 5 /\ s[4] = ":" /\ s[5] = "m"
        secOk == n >= 8 /\ s[6] = ":" /\ s[7] \in {"0", "1", "2", "3", "4", "5"}
                 /\ s[8] \in Digits
        fracOk == n = 12 /\ s[9] = "." /\ s[10] \in Digits /\ s[11] \in Digits
                  /\ s[12] \in Digits
        ss == DigitVal(s[7]) * 10 + DigitVal(s[8])
        fff == DigitVal(s[10]) * 100 + DigitVal(s[11]) * 10 + DigitVal(s[12])
    IN  IF ~dateOk THEN NotADate
        ELSE IF n = 1 THEN DateTime(SinceBase(0, 0, 0, 0))
        ELSE IF n = 3 /\ hourOk THEN DateTime(SinceBase(10, 0, 0, 0))
        ELSE IF n = 5 /\ hourOk /\ minOk THEN DateTime(SinceBase(10, 0, 0, 0))
        ELSE IF n = 8 /\ hourOk /\ minOk /\ secOk
             THEN DateTime(SinceBase(10, 0, ss, 0))
        ELSE IF n = 12 /\ hourOk /\ minOk /\ secOk /\ fracOk
             THEN DateTime(SinceBase(10, 0, ss, fff))
        ELSE NotADate

Positions(s, c) == {i \in DOMAIN s : s[i] = c}
LastOf(S) == CHOOSE i \in S : \A j \in S : j <= i

\* parse_dt(dt_str) of parse_csv_timestamps
parse_dt(dt_str) ==
    LET ts == Positions(dt_str, "T")
    IN  IF Cardinality(ts) # 1 THEN NotADate
        ELSE LET t == LastOf(ts)
                 date_part == SubSeq(dt_str, 1, t - 1)
                 time_part == SubSeq(dt_str, t + 1, Len(dt_str))
                 colons == Positions(time_part, ":")
             IN  IF colons = {} THEN NotADate
                 ELSE LET c == LastOf(colons)
                          t_parts0 == SubSeq(time_part, 1, c - 1)
                          t_parts1 == SubSeq(time_part, c + 1, Len(time_part))
                      IN  IF Len(t_parts1) = 3
                          THEN fromisoformat(date_part \o <<"T">> \o t_parts0
                                             \o <<".">> \o t_parts1)
                          ELSE NotADate

\* s[:-4] and s[-3:]
AllButLast4(s) == SubSeq(s, 1, Len(s) - 4)
Last3(s) == IF Len(s) <= 3 THEN s ELSE SubSeq(s, Len(s) - 2, Len(s))

\* the try / except of the rewriting loop of sync_and_write
row_datetime(row_time_str) ==
    LET direct == fromisoformat(row_time_str)
        colons == Positions(row_time_str, ":")
    IN  IF direct.ok THEN direct
        ELSE IF Cardinality(colons) = 3
             THEN fromisoformat([row_time_str EXCEPT ![LastOf(colons)] = "."])
             ELSE fromisoformat(AllButLast4(row_time_str) \o <<".">> \o Last3(row_time_str))

\* Timestamp strings of the external logs tried
Stamp(sep, sec) == <<"D", "T", "h", ":", "m", ":", "0", sec>> \o <<sep, "0", "0", "0">>

Stamps == {Stamp(":", sec) : sec \in {"0", "1", "2"}}
          \cup {Stamp(".", sec) : sec \in {"0", "1"}}
          \cup {Stamp(";", "1"), <<"n", "/", "a">>}

-----------------------------------------------------------------------------
(* sync.py: parse_csv_timestamps and sync_and_write *)

MaxRows == 3        \* rows of an external log

StampLists == UNION {[1..n -> Stamps] : n \in 0..MaxRows}

\* an external log: its header and its rows (DictReader dicts)
CsvFile(time_name, stamps) ==
    [fieldnames |-> <<time_name, "val">>,
     rows |-> [i \in DOMAIN stamps |-> (time_name :> stamps[i]) @@ ("val" :> <<"d">>)]]

CsvFiles == {CsvFile(tn, st) : tn \in {"time", "Time"}, st \in StampLists}
            \cup {[fieldnames |-> <<"val">>, rows |-> <<("val" :> <<"d">>)>>]}

\* the flight logs tried by the synchronizer: no armed record, no disarmed
\* record, arm before disarm, disarm record first, disarm time before arm time,
\* equal times (the events of other types are passed over by the decoder)
SyncFlightLogs ==
    { <<>>,
      <<ARM(3, IntV(1))>>,
      <<ARM(3, IntV(1)), ARM(8, IntV(0))>>,
      <<ARM(3, IntV(0)), GPS_MSG, ARM(3, IntV(1)), BAD_MSG, ARM(8, IntV(0))>>,
      <<ARM(8, IntV(1)), ARM(3, IntV(0))>>,
      <<ARM(3, IntV(1)), ARM(3, IntV(0))>> }

\* time_col = "time" if "time" in fieldnames else "Time"
TimeCol(fieldnames) == IF "time" \in Range(fieldnames) THEN "time" ELSE "Time"

DurationNotZero(csv_duration) == csv_duration # 0

\* the test csv_duration <= 0 of sync_and_write, negated
DurationOk(csv_duration) == ~(csv_duration <= 0)

\* scale_factor = bin_duration / csv_duration, as an exact fraction
ScaleFactor(bin_duration, csv_duration) == [num |-> bin_duration, den |-> csv_duration]

VirtualTimeFromZero(bin_start, offset, scale) ==
    [num |-> offset * scale.num, den |-> scale.den]

\* virtual_time_sec = bin_start_sec + (offset * scale_factor), as an exact
\* fraction of microseconds (offset in ms, scale in microseconds per ms)
VirtualTime(bin_start, offset, scale) ==
    [num |-> bin_start * scale.den + offset * scale.num, den |-> scale.den]

\* f"{virtual_time_sec:.6f}": the nearest whole microseconds; where the exact
\* value lies halfway the float's rounding error decides, so both are possible
Formatted6(q) ==
    LET lo == q.num \div q.den
        r == q.num % q.den
    IN  IF 2 * r < q.den THEN {lo}
        ELSE IF 2 * r > q.den THEN {lo + 1}
        ELSE {lo, lo + 1}

SyncInit ==
    /\ op = "sync_and_write"
    /\ flight_log \in SyncFlightLogs
    /\ device \in BinFiles
    /\ pc = "arm_start"
    /\ error = ""
    /\ columns = <<>>
    /\ skip_n_arms = 0
    /\ stream = <<>>
    /\ n_message = 0
    /\ n_armed = 0
    /\ message = NoMessage
    /\ conn = "none"
    /\ output = ClosedFile
    /\ yielded = <<>>
    /\ row = NoFields
    /\ arm_messages = <<>>
    /\ arm_csv = NoArmCsv
    /\ window = NoWindow
    /\ csv = NoCsv
    /\ scale_factor = NoScale
    /\ row_i = 0

syncRest == <<op, flight_log, device, columns, skip_n_arms, stream, n_message, n_armed,
              message, conn, yielded, row, arm_messages, arm_csv, window>>

\* parse_csv_timestamps(csv_file): load every row, then parse the first and
\* the last timestamp with parse_dt
LoadCsv ==
    /\ pc = "load_csv"
    /\ \E exists \in BOOLEAN, f \in CsvFiles :
         IF ~exists
         THEN /\ pc' = "failed"
              /\ error' = "FileNotFoundError: csv"
              /\ csv' = csv
         ELSE IF f.rows = <<>>
         THEN /\ pc' = "failed"
              /\ error' = "ValueError: CSV file is empty"
              /\ csv' = [csv EXCEPT !.loaded = TRUE, !.fieldnames = f.fieldnames]
         ELSE IF TimeCol(f.fieldnames) \notin DOMAIN f.rows[1]
         THEN /\ pc' = "failed"
              /\ error' = "KeyError: Time"
              /\ csv' = [csv EXCEPT !.loaded = TRUE, !.fieldnames = f.fieldnames,
                                    !.rows = f.rows]
         ELSE LET time_col == TimeCol(f.fieldnames)
                  start_dt == parse_dt(f.rows[1][time_col])
                  end_dt == parse_dt(f.rows[Len(f.rows)][time_col])
              IN  IF start_dt.ok /\ end_dt.ok
                  THEN /\ pc' = "scale"
                       /\ error' = error
                       /\ csv' = [loaded |-> TRUE, parsed |-> TRUE,
                                  fieldnames |-> f.fieldnames, rows |-> f.rows,
                                  start |-> start_dt.ms, end |-> end_dt.ms]
                  ELSE /\ pc' = "failed"
                       /\ error' = "ValueError: timestamp"
                       /\ csv' = [csv EXCEPT !.loaded = TRUE, !.fieldnames = f.fieldnames,
                                             !.rows = f.rows]
    /\ UNCHANGED <<syncRest, output, scale_factor, row_i>>

\* the duration test and scale_factor = bin_duration / csv_duration
Scale ==
    /\ pc = "scale"
    /\ LET bin_duration == window.disarm - window.arm
           csv_duration == csv.end - csv.start
       IN  IF DurationOk(csv_duration)
           THEN /\ scale_factor' = ScaleFactor(bin_duration, csv_duration)
                /\ pc' = "open_output"
                /\ error' = error
           ELSE /\ scale_factor' = scale_factor
                /\ pc' = "failed"
                /\ error' = "ValueError: CSV duration is zero or negative"
    /\ UNCHANGED <<syncRest, output, csv, row_i>>

\* with open(output_file, "w") ...: writer.writeheader()
SyncOpenOutput ==
    /\ pc = "open_output"
    /\ \E writable \in BOOLEAN :
         IF writable
         THEN /\ output' = [state |-> "open",
                            header |-> <<"VirtualTime">> \o csv.fieldnames,
                            rows |-> <<>>]
              /\ pc' = "rows"
              /\ error' = error
         ELSE /\ output' = output
              /\ pc' = "failed"
              /\ error' = "OSError: open"
    /\ UNCHANGED <<syncRest, csv, scale_factor, row_i>>

\* one turn of the rewriting loop; an exception leaves through the with block
RewriteRow ==
    /\ pc = "rows"
    /\ row_i < Len(csv.rows)
    /\ LET r == csv.rows[row_i + 1]
           dt == row_datetime(r[TimeCol(csv.fieldnames)])
       IN  IF dt.ok
           THEN \E vt \in Formatted6(VirtualTime(window.arm, dt.ms - csv.start, scale_factor)) :
                  /\ output' = [output EXCEPT !.rows = Append(@, ("VirtualTime" :> vt) @@ r)]
                  /\ row_i' = row_i + 1
                  /\ UNCHANGED <<pc, error>>
           ELSE /\ output' = [output EXCEPT !.state = "closed"]
                /\ pc' = "failed"
                /\ error' = "ValueError: Invalid isoformat string"
                /\ row_i' = row_i
    /\ UNCHANGED <<syncRest, csv, scale_factor>>

\* the loop ends, the with block closes the file
RewriteDone ==
    /\ pc = "rows"
    /\ row_i = Len(csv.rows)
    /\ output' = [output EXCEPT !.state = "closed"]
    /\ pc' = "done"
    /\ UNCHANGED <<syncRest, error, csv, scale_factor, row_i>>

SyncNext ==
    \/ ArmOpen
    \/ ArmDecoderSkip
    \/ ArmRecv
    \/ ArmExport
    \/ ArmDerive
    \/ LoadCsv
    \/ Scale
    \/ SyncOpenOutput
    \/ RewriteRow
    \/ RewriteDone

SpecSync == SyncInit /\ [][SyncNext]_vars

-----------------------------------------------------------------------------
(* Properties of the synchronizer *)

Abs(x) == IF x < 0 THEN -x ELSE x

\* the timestamp cell of an external row, whichever of the two names it has
StampOf(r) == IF "time" \in DOMAIN r THEN r["time"] ELSE r["Time"]

\* the instant a 12-character timestamp denotes, read off its digits:
\* milliseconds after D h:m:00.000
InstantOf(st) ==
    (DigitVal(st[7]) * 10 + DigitVal(st[8])) * 1000
    + DigitVal(st[10]) * 100 + DigitVal(st[11]) * 10 + DigitVal(st[12])

\* C3: every row written carries, to the microsecond, the virtual time
\* arm + (row_instant - external_start) * (disarm - arm) / (external_end -
\* external_start); so the first row gets the arm time, the last row the
\* disarm time and a row halfway through the log the middle of the window.
C3_LinearRescale ==
    \A k \in DOMAIN output.rows :
        op = "sync_and_write" =>
        LET first == InstantOf(StampOf(csv.rows[1]))
            last == InstantOf(StampOf(csv.rows[Len(csv.rows)]))
            t == InstantOf(StampOf(csv.rows[k]))
            vt == output.rows[k]["VirtualTime"]
            E == last - first
            D == window.disarm - window.arm
        IN  /\ E > 0
            /\ 2 * Abs(vt * E - (window.arm * E + (t - first) * D)) <= E
            /\ t = first => vt = window.arm
            /\ t = last => vt = window.disarm
            /\ 2 * (t - first) = E => Abs(2 * vt - (window.arm + window.disarm)) <= 1

\* C3 witness: a finished run over three rows in mixed encodings, the middle
\* one halfway, with a window of 5 microseconds
C3_Witness ==
    /\ op = "sync_and_write"
    /\ pc = "done"
    /\ Len(output.rows) = 3
    /\ window.arm = 3 /\ window.disarm = 8
    /\ StampOf(csv.rows[1]) = Stamp(":", "0")
    /\ StampOf(csv.rows[2]) = Stamp(".", "1")
    /\ StampOf(csv.rows[3]) = Stamp(":", "2")
    /\ output.rows[1]["VirtualTime"] = 3
    /\ output.rows[2]["VirtualTime"] = 6
    /\ output.rows[3]["VirtualTime"] = 8

\* C8: an external log without rows ends the run with the empty-log error; a
\* log whose last instant is not later than its first ends it with the
\* degenerate-duration error; in both cases no scale factor is computed, the
\* destination is not opened and no row is written.
C8_DegenerateRejected ==
    /\ (csv.loaded /\ csv.rows = <<>>)
          => /\ pc = "failed"
             /\ error = "ValueError: CSV file is empty"
             /\ scale_factor = NoScale
             /\ output = ClosedFile
    /\ (csv.parsed /\ pc # "scale"
          /\ InstantOf(StampOf(csv.rows[Len(csv.rows)])) <= InstantOf(StampOf(csv.rows[1])))
          => /\ pc = "failed"
             /\ error = "ValueError: CSV duration is zero or negative"
             /\ scale_factor = NoScale
             /\ output = ClosedFile
    /\ scale_factor # NoScale => scale_factor.den > 0

\* C8 witness: a log of several rows whose last row is earlier than its first
\* was rejected
C8_Witness ==
    /\ pc = "failed"
    /\ error = "ValueError: CSV duration is zero or negative"
    /\ Len(csv.rows) >= 2
    /\ InstantOf(StampOf(csv.rows[Len(csv.rows)])) < InstantOf(StampOf(csv.rows[1]))

\* C5 (as claimed): a run ends with the output fully written, or it failed and
\* the destination was never opened.
C5_AllOrNothing ==
    /\ pc = "failed" => output.state = "unopened"
    /\ pc = "done" =>
          /\ output.state = "closed"
          /\ op = "sync_and_write" => Len(output.rows) = Len(csv.rows)
          /\ op = "mavlog2csv" => Len(output.rows) = Len(yielded)

\* C11 (as claimed): a timestamp that the rewriting loop accepts is accepted,
\* with the same instant, when it is the first or the last row parsed by
\* parse_csv_timestamps; so the colon-millisecond form and the ISO
\* period-millisecond form of an instant are read alike in both places.
C11_SameEncodingsEverywhere ==
    (csv.loaded /\ csv.rows # <<>> /\ TimeCol(csv.fieldnames) \in DOMAIN csv.rows[1])
    => LET first == row_datetime(StampOf(csv.rows[1]))
           last == row_datetime(StampOf(csv.rows[Len(csv.rows)]))
       IN  (first.ok /\ last.ok)
           => /\ csv.parsed
              /\ csv.start = first.ms
              /\ csv.end = last.ms

====
